---- MODULE Spec2Model ----
(***************************************************************************)
(* Model of AirbyteConnectionTask (src/prefect/tasks/airbyte/airbyte.py):  *)
(* one invocation of `run` against an Airbyte server whose responses are   *)
(* chosen nondeterministically.                                            *)
(***************************************************************************)
EXTENDS Integers, Sequences, FiniteSets, TLC

\* ------------------------------------------------------------------ bounds

\* Largest number of jobs/get polls one run of the model performs.
MaxPolls == 3

\* ---------------------------------------------------------- Python values

PyNone == [t |-> "NoneType"]

PyStr(cs) == [t |-> "str", s |-> cs]

\* The value of a variable that has not been assigned yet.
Unset == [t |-> "unset"]

\* JSON values a server may send for the opaque `schedule` attribute.
JsonNull == [t |-> "null"]

JsonObject(ks) == [t |-> "object", keys |-> ks]

\* Python truthiness (`if x:` / `not x`).
Truthy(v) ==
  CASE v.t = "NoneType" -> FALSE
    [] v.t = "null"     -> FALSE
    [] v.t = "unset"    -> FALSE
    [] v.t = "str"      -> Len(v.s) > 0
    [] v.t = "bool"     -> v.b
    [] v.t = "object"   -> v.keys # {}
    [] OTHER            -> TRUE

PyBool(b) == [t |-> "bool", b |-> b]

\* ------------------------------------------------------- string operations
\* Strings are sequences of one-character strings.

Rep(c, n) == [i \in 1..n |-> c]

HexDigits ==
  {"0","1","2","3","4","5","6","7","8","9",
   "a","b","c","d","e","f","A","B","C","D","E","F"}

StartsWith(s, p) == Len(s) >= Len(p) /\ SubSeq(s, 1, Len(p)) = p

Drop(s, n) == SubSeq(s, n + 1, Len(s))

\* str.replace(p, ''): remove every non-overlapping occurrence of p, left to right.
RECURSIVE RemoveAll(_, _)
RemoveAll(s, p) ==
  IF s = <<>> THEN <<>>
  ELSE IF StartsWith(s, p) THEN RemoveAll(Drop(s, Len(p)), p)
  ELSE <<Head(s)>> \o RemoveAll(Tail(s), p)

RECURSIVE LStrip(_, _)
LStrip(s, cs) ==
  IF s # <<>> /\ Head(s) \in cs THEN LStrip(Tail(s), cs) ELSE s

RECURSIVE RStrip(_, _)
RStrip(s, cs) ==
  IF s # <<>> /\ s[Len(s)] \in cs THEN RStrip(SubSeq(s, 1, Len(s) - 1), cs) ELSE s

\* str.strip(chars)
Strip(s, cs) == RStrip(LStrip(s, cs), cs)

\* The digits of an int() literal: hex digits, single underscores between them.
DigitsOK(d) ==
  /\ d # <<>>
  /\ d[1] \in HexDigits
  /\ d[Len(d)] \in HexDigits
  /\ \A i \in 1..Len(d) : d[i] \in HexDigits \/ d[i] = "_"
  /\ \A i \in 1..(Len(d) - 1) : ~(d[i] = "_" /\ d[i + 1] = "_")

\* Whether int(s, 16) succeeds: surrounding whitespace, an optional sign and an
\* optional 0x prefix (itself optionally followed by one underscore) are accepted.
IntBase16OK(s) ==
  LET a == Strip(s, {" "})
      b == IF a # <<>> /\ Head(a) \in {"+", "-"} THEN Tail(a) ELSE a
      c == IF StartsWith(b, <<"0", "x">>) \/ StartsWith(b, <<"0", "X">>)
             THEN (IF Len(b) > 2 /\ b[3] = "_" THEN Drop(b, 3) ELSE Drop(b, 2))
             ELSE b
  IN DigitsOK(c)

\* uuid.UUID(hex): TRUE when it returns, FALSE when it raises ValueError.  The
\* result is below 2^128 for every literal of 32 characters, so the range test
\* of the constructor never fails here.
uuid_UUID(hex) ==
  LET h1 == RemoveAll(RemoveAll(hex, <<"u","r","n",":">>), <<"u","u","i","d",":">>)
      h2 == RemoveAll(Strip(h1, {"{", "}"}), <<"-">>)
  IN Len(h2) = 32 /\ IntBase16OK(h2)

\* ----------------------------------------------------------------- inputs

Hex(n) == Rep("a", n)

Canonical ==
  Hex(8) \o <<"-">> \o Hex(4) \o <<"-">> \o Hex(4) \o <<"-">> \o Hex(4) \o <<"-">> \o Hex(12)

\* The connection_id arguments `run` is called with.
ConnectionIds ==
  { PyNone,
    PyStr(<<>>),
    PyStr(Canonical),
    PyStr(<<"{">> \o Canonical \o <<"}">>),
    PyStr(Hex(31)),
    PyStr(Hex(33)),
    PyStr(Rep("g", 32)),
    PyStr(<<"n","o","t","-","a","-","u","u","i","d">>),
    PyStr(<<"0", "x">> \o Hex(30)) }

PollIntervals == {15, 30}

\* --------------------------------------------------------- server responses

\* A request that fails at the transport level raises a RequestException.
Transport == [kind |-> "transport"]

NotJson(code) == [kind |-> "http", code |-> code, json |-> FALSE]

Json(code, body) == [kind |-> "http", code |-> code, json |-> TRUE, body |-> body]

NoResponse == [kind |-> "none"]

Flags == {"absent", "true", "false"}

\* _check_health_status never reads the status code of the response.
HealthResponses ==
  {Transport, NotJson(200), NotJson(503)}
    \cup {Json(c, [available |-> a, db |-> d]) : c \in {200, 503}, a \in Flags, d \in Flags}

CONNECTION_STATUS_ACTIVE == "active"

CONNECTION_STATUS_INACTIVE == "inactive"

CONNECTION_STATUS_DEPRECATED == "deprecated"

\* `paused` stands for any status the task has no constant for.
ConnectionStatuses ==
  {CONNECTION_STATUS_ACTIVE, CONNECTION_STATUS_INACTIVE, CONNECTION_STATUS_DEPRECATED, "paused"}

Schedules == {JsonNull, JsonObject({}), JsonObject({"units", "timeUnit"})}

SyncCatalogs == {"catalogA", "catalogB"}

ErrorBody == [message |-> "error"]

GetResponses ==
  {Transport}
    \cup {NotJson(c) : c \in {200, 500}}
    \cup {Json(c, ErrorBody) : c \in {404, 500}}
    \cup {Json(c, [status |-> st, schedule |-> sc, syncCatalog |-> cat]) :
            c \in {200, 300}, st \in ConnectionStatuses,
            sc \in Schedules, cat \in SyncCatalogs}

UpdateResponses ==
  {Transport} \cup {NotJson(c) : c \in {200, 502}}
    \cup {Json(c, ErrorBody) : c \in {200, 500}}

JobIds == {1, 2}

Stamps == {1, 2}

SyncResponses ==
  {Transport, NotJson(200), NotJson(500)}
    \cup {Json(c, ErrorBody) : c \in {404, 500}}
    \cup {Json(200, [job |-> [id |-> j, createdAt |-> t]]) : j \in JobIds, t \in Stamps}

JOB_STATUS_SUCCEEDED == "succeeded"

JOB_STATUS_FAILED == "failed"

JOB_STATUS_PENDING == "pending"

JobStatuses ==
  {JOB_STATUS_PENDING, "running", "incomplete", JOB_STATUS_FAILED, JOB_STATUS_SUCCEEDED,
   "cancelled"}

JobsResponses ==
  {Transport, NotJson(200), NotJson(500)}
    \cup {Json(c, ErrorBody) : c \in {404, 500}}
    \cup {Json(200, [job |-> [status |-> s, createdAt |-> c, updatedAt |-> u]]) :
            s \in JobStatuses, c \in Stamps, u \in Stamps}

\* ------------------------------------------------------------- exceptions

ValueError == "ValueError"

AirbyteServerNotHealthyException == "AirbyteServerNotHealthyException"

ConnectionNotFoundException == "ConnectionNotFoundException"

JobNotFoundException == "JobNotFoundException"

FAIL_inactive == "FAIL: Please enable the Connection in Airbyte Server."

FAIL_deprecated == "FAIL: Connection is deprecated."

KeyError == "KeyError"

TypeError == "TypeError"

\* response.json() on a body that is not JSON raises a decode error, which is a
\* RequestException in some releases of the requests library and a plain
\* ValueError in others: inside `try ... except RequestException` either
\* exception can reach the caller.
JsonFailure == {"JSONDecodeError", AirbyteServerNotHealthyException}

\* ------------------------------------------------------------------ state

VARIABLES
  pc,                \* position in `run`
  connection_id,     \* argument of `run`
  poll_interval_s,   \* argument of `run`
  response,          \* the connections/get response (line 94), kept for the run
  connection_status, \* run: result of _get_connection_status
  job_id,            \* run: job id returned by _trigger_manual_sync_connection
  job_status,        \* run: loop variable
  job_created_at,    \* run
  job_updated_at,    \* run
  exc,               \* the exception `run` raised ("" while none)
  ret,               \* the value `run` returned (Unset while none)
  log,               \* every request sent and every sleep, in order
  polled,            \* the job statuses read from jobs/get, in order
  lastResp           \* the response the latest step received

vars ==
  <<pc, connection_id, poll_interval_s, response, connection_status, job_id, job_status,
    job_created_at, job_updated_at, exc, ret, log, polled, lastResp>>

\* Locals of `run` below the point reached so far.
runLocals == <<connection_status, job_id, job_status, job_created_at, job_updated_at>>

NoStatus == "<unassigned>"

Init ==
  /\ pc = "start"
  /\ connection_id \in ConnectionIds
  /\ poll_interval_s \in PollIntervals
  /\ response = NoResponse
  /\ connection_status = NoStatus
  /\ job_id = 0
  /\ job_status = NoStatus
  /\ job_created_at = 0
  /\ job_updated_at = 0
  /\ exc = ""
  /\ ret = Unset
  /\ log = <<>>
  /\ polled = <<>>
  /\ lastResp = NoResponse

\* What a step does when it ends: raise an exception, or return a value.
Raise(e) == [k |-> "raise", exc |-> e]

Return(v) == [k |-> "return", v |-> v]

\* `run` ends by raising e.
Raised(e) ==
  /\ pc' = "done"
  /\ exc' = e
  /\ ret' = Unset

\* `run` ends by returning v.
Returned(v) ==
  /\ pc' = "done"
  /\ exc' = ""
  /\ ret' = v

\* ----------------------------------------------------------- run: validation

\* Lines 232-244: the two checks of connection_id.
validate(cid) ==
  IF ~Truthy(cid) THEN Raise(ValueError)
  ELSE IF ~uuid_UUID(cid.s) THEN Raise(ValueError)
  ELSE Return(PyNone)

Validate ==
  /\ pc = "start"
  /\ LET o == validate(connection_id)
     IN IF o.k = "raise"
          THEN Raised(o.exc)
          ELSE pc' = "health" /\ UNCHANGED <<exc, ret>>
  /\ UNCHANGED <<connection_id, poll_interval_s, response, runLocals, log, polled, lastResp>>

\* --------------------------------------------------------------- CheckHealth

HealthRequest == [ep |-> "health", method |-> "GET"]

\* check_health_status without the test of the flag (lines 81-84 dropped).
check_health_status_flag_ignored(resp) ==
  IF resp.kind = "transport" THEN {Raise(AirbyteServerNotHealthyException)}
  ELSE IF ~resp.json THEN {Raise(e) : e \in JsonFailure}
  ELSE {Return(PyBool(TRUE))}

\* check_health_status with `return health_status` where lines 82-85 raise:
\* run (line 254) does not read the value returned.
check_health_status_returns_flag(resp) ==
  IF resp.kind = "transport" THEN {Raise(AirbyteServerNotHealthyException)}
  ELSE IF ~resp.json THEN {Raise(e) : e \in JsonFailure}
  ELSE LET key == IF resp.body.available # "absent" THEN "available" ELSE "db"
           health_status == resp.body[key]
       IN IF health_status = "absent" THEN {Raise(KeyError)}
          ELSE {Return(PyBool(health_status = "true"))}

\* The outcomes of _check_health_status for a response.
check_health_status(resp) ==
  IF resp.kind = "transport" THEN {Raise(AirbyteServerNotHealthyException)}
  ELSE IF ~resp.json THEN {Raise(e) : e \in JsonFailure}
  ELSE LET key == IF resp.body.available # "absent" THEN "available" ELSE "db"
           health_status == resp.body[key]
       IN IF health_status = "absent" THEN {Raise(KeyError)}
          ELSE IF health_status = "false" THEN {Raise(AirbyteServerNotHealthyException)}
          ELSE {Return(PyBool(TRUE))}

CheckHealth ==
  /\ pc = "health"
  /\ log' = Append(log, HealthRequest)
  /\ \E resp \in HealthResponses :
       /\ lastResp' = resp
       /\ \E o \in check_health_status(resp) :
            IF o.k = "raise"
              THEN Raised(o.exc)
              ELSE pc' = "get" /\ UNCHANGED <<exc, ret>>
  /\ UNCHANGED <<connection_id, poll_interval_s, response, runLocals, polled>>

\* -------------------------------------------------------- GetConnectionStatus

GetRequest(cid) ==
  [ep |-> "connections/get", method |-> "POST", json |-> [connectionId |-> cid]]

\* Response.raise_for_status(): an HTTPError (a RequestException) for 4xx and 5xx.
raise_for_status(code) == code >= 400 /\ code < 600

\* get_connection_lookup without the except clause of lines 129-130.
get_connection_lookup_uncaught(resp) ==
  IF resp.kind = "transport" THEN {Raise("ConnectionError")}
  ELSE IF ~resp.json THEN {Raise("JSONDecodeError")}
  ELSE IF raise_for_status(resp.code) THEN {Raise("HTTPError")}
  ELSE IF "schedule" \notin DOMAIN resp.body THEN {Raise(KeyError)}
  ELSE IF Truthy(resp.body.schedule) THEN {[k |-> "update"]}
  ELSE {Return(resp.body.status)}

\* Lines 93-103 of _get_connection_status: the lookup up to the schedule test.
\* [k |-> "update"] stands for entering the schedule-removal branch.
get_connection_lookup(resp) ==
  IF resp.kind = "transport" THEN {Raise(AirbyteServerNotHealthyException)}
  ELSE IF ~resp.json THEN {Raise(e) : e \in JsonFailure}
  ELSE IF raise_for_status(resp.code) THEN {Raise(AirbyteServerNotHealthyException)}
  ELSE IF "schedule" \notin DOMAIN resp.body THEN {Raise(KeyError)}
  ELSE IF Truthy(resp.body.schedule) THEN {[k |-> "update"]}
  ELSE {Return(resp.body.status)}

GetConnection ==
  /\ pc = "get"
  /\ log' = Append(log, GetRequest(connection_id))
  /\ \E resp \in GetResponses :
       /\ lastResp' = resp
       /\ response' = IF resp.kind = "http" THEN resp ELSE response
       /\ \E o \in get_connection_lookup(resp) :
            CASE o.k = "raise" ->
                   Raised(o.exc) /\ UNCHANGED connection_status
              [] o.k = "update" ->
                   /\ pc' = "update"
                   /\ UNCHANGED <<exc, ret, connection_status>>
              [] o.k = "return" ->
                   /\ pc' = "switch"
                   /\ connection_status' = o.v
                   /\ UNCHANGED <<exc, ret>>
  /\ UNCHANGED <<connection_id, poll_interval_s, job_id, job_status, job_created_at,
                 job_updated_at, polled>>

\* update_body with the status written as a constant at line 118.
update_body_status_active(cid, resp) ==
  [connectionId |-> cid,
   syncCatalog  |-> resp.body.syncCatalog,
   schedule     |-> JsonNull,
   status       |-> CONNECTION_STATUS_ACTIVE]

\* Lines 107-119: the body of the connections/update request.
update_body(cid, resp) ==
  [connectionId |-> cid,
   syncCatalog  |-> resp.body.syncCatalog,
   schedule     |-> JsonNull,
   status       |-> resp.body.status]

UpdateRequest(cid, resp) ==
  [ep |-> "connections/update", method |-> "POST", json |-> update_body(cid, resp)]

\* Lines 111-128: the outcome of the schedule removal, given the update's
\* response resp2 and the lookup's response resp.
remove_schedule(resp2, resp) ==
  IF resp2.kind = "transport" THEN {Raise(AirbyteServerNotHealthyException)}
  ELSE IF ~resp2.json THEN {Raise(e) : e \in JsonFailure}
  ELSE {Return(resp.body.status)}

RemoveSchedule ==
  /\ pc = "update"
  /\ log' = Append(log, UpdateRequest(connection_id, response))
  /\ \E resp2 \in UpdateResponses :
       /\ lastResp' = resp2
       /\ \E o \in remove_schedule(resp2, response) :
            IF o.k = "raise"
              THEN Raised(o.exc) /\ UNCHANGED connection_status
              ELSE /\ pc' = "switch"
                   /\ connection_status' = o.v
                   /\ UNCHANGED <<exc, ret>>
  /\ UNCHANGED <<connection_id, poll_interval_s, response, job_id, job_status,
                 job_created_at, job_updated_at, polled>>

\* ------------------------------------------------------- run: status switch

\* status_switch testing `!= deprecated` where line 263 tests `== active`.
status_switch_not_deprecated(status) ==
  IF status # CONNECTION_STATUS_DEPRECATED THEN [k |-> "sync"]
  ELSE Raise(FAIL_deprecated)

\* status_switch with the two failure branches exchanged.
status_switch_exchanged(status) ==
  IF status = CONNECTION_STATUS_ACTIVE THEN [k |-> "sync"]
  ELSE IF status = CONNECTION_STATUS_INACTIVE THEN Raise(FAIL_deprecated)
  ELSE IF status = CONNECTION_STATUS_DEPRECATED THEN Raise(FAIL_inactive)
  ELSE Return(PyNone)

\* Lines 263, 292-301: the branch `run` takes on the connection status.
\* Falling off the if/elif chain returns None.
status_switch(status) ==
  IF status = CONNECTION_STATUS_ACTIVE THEN [k |-> "sync"]
  ELSE IF status = CONNECTION_STATUS_INACTIVE THEN Raise(FAIL_inactive)
  ELSE IF status = CONNECTION_STATUS_DEPRECATED THEN Raise(FAIL_deprecated)
  ELSE Return(PyNone)

Switch ==
  /\ pc = "switch"
  /\ LET o == status_switch(connection_status)
     IN CASE o.k = "sync"   -> pc' = "sync" /\ UNCHANGED <<exc, ret>>
          [] o.k = "raise"  -> Raised(o.exc)
          [] o.k = "return" -> Returned(o.v)
  /\ UNCHANGED <<connection_id, poll_interval_s, response, runLocals, log, polled, lastResp>>

\* --------------------------------------------------------------- TriggerSync

SyncRequest(cid) ==
  [ep |-> "connections/sync", method |-> "POST", json |-> [connectionId |-> cid]]

\* trigger_manual_sync_connection with `else` where line 158 has `elif ... == 404`.
trigger_manual_sync_connection_else_not_found(resp) ==
  IF resp.kind = "transport" THEN {Raise(AirbyteServerNotHealthyException)}
  ELSE IF resp.code = 200 /\ resp.json
    THEN {Return([t |-> "tuple", job_id |-> resp.body.job.id,
                  job_created_at |-> resp.body.job.createdAt])}
  ELSE IF resp.code = 200 THEN {Raise(e) : e \in JsonFailure}
  ELSE {Raise(ConnectionNotFoundException)}

\* trigger_manual_sync_connection without the 404 branch (lines 158-167).
trigger_manual_sync_connection_no_404(resp) ==
  IF resp.kind = "transport" THEN {Raise(AirbyteServerNotHealthyException)}
  ELSE IF resp.code = 200 /\ resp.json
    THEN {Return([t |-> "tuple", job_id |-> resp.body.job.id,
                  job_created_at |-> resp.body.job.createdAt])}
  ELSE IF resp.code = 200 THEN {Raise(e) : e \in JsonFailure}
  ELSE {Return(PyNone)}

\* _trigger_manual_sync_connection: a status code other than 200 and 404 falls
\* off the if/elif and the function returns None.
trigger_manual_sync_connection(resp) ==
  IF resp.kind = "transport" THEN {Raise(AirbyteServerNotHealthyException)}
  ELSE IF resp.code = 200
    THEN IF ~resp.json THEN {Raise(e) : e \in JsonFailure}
         ELSE {Return([t |-> "tuple", job_id |-> resp.body.job.id,
                       job_created_at |-> resp.body.job.createdAt])}
  ELSE IF resp.code = 404 THEN {Raise(ConnectionNotFoundException)}
  ELSE {Return(PyNone)}

\* A tuple assignment `a, b = v` of a value that is None raises TypeError.
unpack(o) == IF o.k = "return" /\ o.v.t = "NoneType" THEN Raise(TypeError) ELSE o

TriggerSync ==
  /\ pc = "sync"
  /\ log' = Append(log, SyncRequest(connection_id))
  /\ \E resp \in SyncResponses :
       /\ lastResp' = resp
       /\ \E r \in trigger_manual_sync_connection(resp) :
            LET o == unpack(r)
            IN IF o.k = "raise"
                 THEN Raised(o.exc) /\ UNCHANGED <<job_id, job_created_at, job_status>>
                 ELSE /\ job_id' = o.v.job_id
                      /\ job_created_at' = o.v.job_created_at
                      /\ job_status' = JOB_STATUS_PENDING
                      /\ pc' = "loop"
                      /\ UNCHANGED <<exc, ret>>
  /\ UNCHANGED <<connection_id, poll_interval_s, response, connection_status,
                 job_updated_at, polled>>

\* -------------------------------------------------------------- polling loop

\* loop_ends with cancelled taken for a final status at line 271.
loop_ends_on_cancelled_too(status) ==
  status \in {JOB_STATUS_FAILED, JOB_STATUS_SUCCEEDED, "cancelled"}

\* loop_ends with `succeeded` left out of the list of line 271.
loop_ends_on_failure_only(status) == status = JOB_STATUS_FAILED

\* loop_ends with `failed` left out of the list of line 271.
loop_ends_on_success_only(status) == status = JOB_STATUS_SUCCEEDED

\* Line 271: the job statuses that end the loop.
loop_ends(status) == status \in {JOB_STATUS_FAILED, JOB_STATUS_SUCCEEDED}

\* Lines 285-291: the dict `run` returns.
sync_result(cid, cstatus, jstatus, created, updated) ==
  [t |-> "dict",
   connection_id  |-> cid,
   status         |-> cstatus,
   job_status     |-> jstatus,
   job_created_at |-> created,
   job_updated_at |-> updated]

\* Line 271, and the return once the loop ended.
LoopTest ==
  /\ pc = "loop"
  /\ IF loop_ends(job_status)
       THEN Returned(sync_result(connection_id, connection_status, job_status,
                                 job_created_at, job_updated_at))
       ELSE pc' = "poll" /\ UNCHANGED <<exc, ret>>
  /\ UNCHANGED <<connection_id, poll_interval_s, response, runLocals, log, polled, lastResp>>

JobsRequest(id) == [ep |-> "jobs/get", method |-> "POST", json |-> [id |-> id]]

\* get_job_status without the `except RequestException` of lines 184-185.
get_job_status_uncaught(resp) ==
  IF resp.kind = "transport" THEN {Raise("ConnectionError")}
  ELSE IF resp.code = 200 /\ resp.json
    THEN {Return([t |-> "tuple", job_status |-> resp.body.job.status,
                  job_created_at |-> resp.body.job.createdAt,
                  job_updated_at |-> resp.body.job.updatedAt])}
  ELSE IF resp.code = 200 THEN {Raise("JSONDecodeError")}
  ELSE IF resp.code = 404 THEN {Raise(JobNotFoundException)}
  ELSE {Return(PyNone)}

\* _get_job_status: like the trigger, None for a code other than 200 and 404.
get_job_status(resp) ==
  IF resp.kind = "transport" THEN {Raise(AirbyteServerNotHealthyException)}
  ELSE IF resp.code = 200
    THEN IF ~resp.json THEN {Raise(e) : e \in JsonFailure}
         ELSE {Return([t |-> "tuple", job_status |-> resp.body.job.status,
                       job_created_at |-> resp.body.job.createdAt,
                       job_updated_at |-> resp.body.job.updatedAt])}
  ELSE IF resp.code = 404 THEN {Raise(JobNotFoundException)}
  ELSE {Return(PyNone)}

\* sleeps_after with the sleep of line 283 outside the else branch.
sleeps_after_every_poll(status) == TRUE

\* Lines 277-283: whether the iteration sleeps before the next loop test.
sleeps_after(status) ==
  ~(status = JOB_STATUS_SUCCEEDED) /\ ~(status = JOB_STATUS_FAILED)

\* Lines 272-283: one iteration up to the sleep.
Poll ==
  /\ pc = "poll"
  /\ Len(polled) < MaxPolls
  /\ log' = Append(log, JobsRequest(job_id))
  /\ \E resp \in JobsResponses :
       /\ lastResp' = resp
       /\ \E r \in get_job_status(resp) :
            LET o == unpack(r)
            IN IF o.k = "raise"
                 THEN /\ Raised(o.exc)
                      /\ UNCHANGED <<job_status, job_created_at, job_updated_at, polled>>
                 ELSE /\ job_status' = o.v.job_status
                      /\ job_created_at' = o.v.job_created_at
                      /\ job_updated_at' = o.v.job_updated_at
                      /\ polled' = Append(polled, o.v.job_status)
                      /\ pc' = IF sleeps_after(o.v.job_status) THEN "sleep" ELSE "loop"
                      /\ UNCHANGED <<exc, ret>>
  /\ UNCHANGED <<connection_id, poll_interval_s, response, connection_status, job_id>>

SleepEvent(secs) == [ep |-> "sleep", secs |-> secs]

\* Line 283: sleep(poll_interval_s).
Sleep ==
  /\ pc = "sleep"
  /\ log' = Append(log, SleepEvent(poll_interval_s))
  /\ pc' = "loop"
  /\ UNCHANGED <<connection_id, poll_interval_s, response, runLocals, exc, ret, polled,
                 lastResp>>

\* Lines 272-283 with the answer drawn from Responses. The request is left out
\* of log and the status out of polled: both are histories of the run, and
\* without them a loop of any length stays within finitely many states.
poll_step(Responses) ==
  /\ pc = "poll"
  /\ \E resp \in Responses :
       /\ lastResp' = resp
       /\ \E r \in get_job_status(resp) :
            LET o == unpack(r)
            IN IF o.k = "raise"
                 THEN /\ Raised(o.exc)
                      /\ UNCHANGED <<job_status, job_created_at, job_updated_at>>
                 ELSE /\ job_status' = o.v.job_status
                      /\ job_created_at' = o.v.job_created_at
                      /\ job_updated_at' = o.v.job_updated_at
                      /\ pc' = IF sleeps_after(o.v.job_status) THEN "sleep" ELSE "loop"
                      /\ UNCHANGED <<exc, ret>>
  /\ UNCHANGED <<connection_id, poll_interval_s, response, connection_status, job_id,
                 log, polled>>

\* A poll the server may answer in any way.
PollAnswered == poll_step(JobsResponses)

\* The answers of a server whose job never reaches failed or succeeded: 200
\* with one of the other statuses.
UnfinishedJobsResponses ==
  {Json(200, [job |-> [status |-> s, createdAt |-> t, updatedAt |-> u]]) :
     s \in JobStatuses \ {JOB_STATUS_FAILED, JOB_STATUS_SUCCEEDED},
     t \in Stamps, u \in Stamps}

\* A poll answered by such a server.
PollUnfinished == poll_step(UnfinishedJobsResponses)

\* Line 283 again, the sleep left out of log.
SleepThrough ==
  /\ pc = "sleep"
  /\ pc' = "loop"
  /\ UNCHANGED <<connection_id, poll_interval_s, response, runLocals, exc, ret, polled,
                 lastResp, log>>

\* ------------------------------------------------------------ specification

Next ==
  \/ Validate
  \/ CheckHealth
  \/ GetConnection
  \/ RemoveSchedule
  \/ Switch
  \/ TriggerSync
  \/ LoopTest
  \/ Poll
  \/ Sleep

Spec == Init /\ [][Next]_vars

\* The run against a server whose job never finishes. run is sequential code
\* on one thread, which keeps executing, and every request is answered: from
\* the health check on, the next step of the run is taken whenever there is one.
NextUnfinished ==
  \/ Validate
  \/ CheckHealth
  \/ GetConnection
  \/ RemoveSchedule
  \/ Switch
  \/ TriggerSync
  \/ LoopTest
  \/ PollUnfinished
  \/ SleepThrough

SpecUnfinished ==
  /\ Init
  /\ [][NextUnfinished]_vars
  /\ WF_vars(CheckHealth) /\ WF_vars(GetConnection) /\ WF_vars(RemoveSchedule)
  /\ WF_vars(Switch) /\ WF_vars(TriggerSync) /\ WF_vars(LoopTest)
  /\ WF_vars(PollUnfinished) /\ WF_vars(SleepThrough)

\* The run with polls of any number against a server whose job eventually
\* finishes: a poll answered 200 with failed or succeeded cannot be possible
\* again and again without ever happening.
NextFinishing ==
  \/ Validate
  \/ CheckHealth
  \/ GetConnection
  \/ RemoveSchedule
  \/ Switch
  \/ TriggerSync
  \/ LoopTest
  \/ PollAnswered
  \/ SleepThrough

FinishedAnswer ==
  /\ PollAnswered
  /\ lastResp'.kind = "http"
  /\ lastResp'.code = 200
  /\ lastResp'.json
  /\ lastResp'.body.job.status \in {JOB_STATUS_FAILED, JOB_STATUS_SUCCEEDED}

SpecFinishing ==
  /\ Init
  /\ [][NextFinishing]_vars
  /\ WF_vars(CheckHealth) /\ WF_vars(GetConnection) /\ WF_vars(RemoveSchedule)
  /\ WF_vars(Switch) /\ WF_vars(TriggerSync) /\ WF_vars(LoopTest)
  /\ WF_vars(PollAnswered) /\ WF_vars(SleepThrough)
  /\ SF_vars(FinishedAnswer)

\* ------------------------------------------------------------- vocabulary

\* The names the design gives to the failures of a run.
ValidationError == ValueError

ServerUnhealthy == AirbyteServerNotHealthyException

ConnectionNotFound == ConnectionNotFoundException

JobNotFound == JobNotFoundException

ConnectionInactive == FAIL_inactive

ConnectionDeprecated == FAIL_deprecated

\* The positions in the log of the events of one kind.
Sent(ep) == {i \in 1..Len(log) : log[i].ep = ep}

\* The kind of the latest event ("" before the first).
LastEp == IF log = <<>> THEN "" ELSE log[Len(log)].ep

IsHex(cs) == \A i \in 1..Len(cs) : cs[i] \in HexDigits

\* 8-4-4-4-12 hexadecimal digits.
IsCanonicalUUID(cs) ==
  /\ Len(cs) = 36
  /\ \A i \in 1..36 : IF i \in {9, 14, 19, 24} THEN cs[i] = "-" ELSE cs[i] \in HexDigits

\* A well-formed UUID, read generously: the canonical form or its 32 bare
\* digits, optionally in braces or behind the urn:uuid: prefix.
WellFormedUUID(cs) ==
  LET urn  == <<"u","r","n",":","u","u","i","d",":">>
      a    == IF StartsWith(cs, urn) THEN Drop(cs, Len(urn)) ELSE cs
      b    == IF Len(a) >= 2 /\ a[1] = "{" /\ a[Len(a)] = "}"
                THEN SubSeq(a, 2, Len(a) - 1) ELSE a
  IN IsCanonicalUUID(b) \/ (Len(b) = 32 /\ IsHex(b))

Malformed(cid) == ~Truthy(cid) \/ ~WellFormedUUID(cid.s)

\* -------------------------------------------------------------------- C1
\* C1: for every connection_id that is missing, empty or not a well-formed
\* UUID, run fails with the validation error and sends no request at all.
C1_MalformedIdRejected ==
  Malformed(connection_id) =>
    /\ log = <<>>
    /\ pc = "done" => (exc = ValidationError /\ ret = Unset)

\* -------------------------------------------------------------------- C2
\* The health response carries a falsy flag under the key the check reads.
FalsyHealth(resp) ==
  /\ resp.kind = "http"
  /\ resp.json
  /\ \/ resp.body.available = "false"
     \/ resp.body.available = "absent" /\ resp.body.db = "false"

\* C2: when the health check reads a falsy flag, or the health request fails at
\* the transport level, run has failed with ServerUnhealthy and the health
\* request is the only request of the run.
C2_UnhealthyStops ==
  (LastEp = "health" /\ (FalsyHealth(lastResp) \/ lastResp = Transport)) =>
    /\ pc = "done"
    /\ exc = ServerUnhealthy
    /\ ret = Unset
    /\ log = <<HealthRequest>>

C2_Witness ==
  /\ pc = "done"
  /\ log = <<HealthRequest>>
  /\ lastResp = Json(200, [available |-> "false", db |-> "true"])
  /\ ~Malformed(connection_id)
  /\ exc = ServerUnhealthy

\* -------------------------------------------------------------------- C3
\* C3: in every state of a run, a connections/sync request or a jobs/get poll
\* has been sent only if _get_connection_status returned `active`, the status
\* of the connections/get response.
C3_SyncOnlyWhenActive ==
  /\ (Sent("connections/sync") # {} \/ Sent("jobs/get") # {}) =>
       /\ connection_status = CONNECTION_STATUS_ACTIVE
       /\ response.body.status = CONNECTION_STATUS_ACTIVE
  /\ connection_status # NoStatus => connection_status = response.body.status

C3_Witness ==
  /\ Sent("connections/sync") # {}
  /\ Sent("jobs/get") # {}
  /\ connection_status = CONNECTION_STATUS_ACTIVE

StatusReturned == connection_status # NoStatus

\* C5 (stated of the runs with a well-formed connection_id):
\* GetConnectionStatus sends a connections/update request if and only if
\* the connection returned by connections/get carries a non-null schedule; it
\* sends it once, right after the lookup and before the status is returned,
\* with schedule null and the connectionId, syncCatalog and status of the lookup.
C5_UpdateIffScheduleNonNull ==
  /\ (StatusReturned /\ ~Malformed(connection_id)) =>
       (Sent("connections/update") # {} <=> response.body.schedule # JsonNull)
  /\ Cardinality(Sent("connections/update")) <= 1
  /\ \A i \in Sent("connections/update") :
       /\ i > 1
       /\ log[i - 1].ep = "connections/get"
       /\ log[i].json = [connectionId |-> connection_id,
                         syncCatalog  |-> response.body.syncCatalog,
                         schedule     |-> JsonNull,
                         status       |-> response.body.status]

\* -------------------------------------------------------------------- C6
\* The connections/update request failed: no response, or one that is not 200.
UpdateFailed(resp) == resp.kind = "transport" \/ resp.code # 200

\* C6 (stated of the runs with a well-formed connection_id): a failed
\* connections/update request (a response other than 200, or a transport
\* failure) does not abort the run: GetConnectionStatus has returned the
\* status of the lookup and the run goes on through the status switch.
C6_UpdateFailureIgnored ==
  (LastEp = "connections/update" /\ UpdateFailed(lastResp) /\ ~Malformed(connection_id)) =>
    /\ StatusReturned
    /\ connection_status = response.body.status
    /\ exc \notin {ServerUnhealthy, "JSONDecodeError"}
    /\ pc = "done" => connection_status # CONNECTION_STATUS_ACTIVE

\* -------------------------------------------------------------------- C7
\* The job statuses the design calls terminal for the loop.
TerminalJobStatuses == {"failed", "succeeded"}

IsSyncResult(v) == v.t = "dict" /\ v.job_status \in TerminalJobStatuses

\* C7 (stated of the runs with a well-formed connection_id): a run that has
\* ended either returned a SyncResult with a terminal job status or failed
\* with an error, never both and never neither.
C7_ResultOrError ==
  (pc = "done" /\ ~Malformed(connection_id)) =>
    \/ exc = "" /\ IsSyncResult(ret)
    \/ exc # "" /\ ret = Unset

\* -------------------------------------------------------------------- C8
\* C8: the SyncResult a run returns carries the status of the first poll whose
\* status is failed or succeeded, the timestamps of that same poll response,
\* the connection_id of the call and the (active) status of the lookup; the
\* polls pending, running, succeeded take at least two requests and end in
\* job_status succeeded.
C8_SyncResultFromFirstTerminalPoll ==
  /\ \A i \in 1..(Len(polled) - 1) : polled[i] \notin TerminalJobStatuses
  /\ ret.t = "dict" =>
       /\ polled # <<>>
       /\ ret.job_status \in TerminalJobStatuses
       /\ ret.job_status = polled[Len(polled)]
       /\ LastEp = "jobs/get"
       /\ lastResp.body.job.status = ret.job_status
       /\ ret.job_created_at = lastResp.body.job.createdAt
       /\ ret.job_updated_at = lastResp.body.job.updatedAt
       /\ ret.connection_id = connection_id
       /\ ret.status = response.body.status
       /\ ret.status = CONNECTION_STATUS_ACTIVE
  /\ (pc = "done" /\ polled = <<"pending", "running", "succeeded">>) =>
       /\ ret.t = "dict"
       /\ ret.job_status = "succeeded"
       /\ Cardinality(Sent("jobs/get")) >= 2

C8_Witness ==
  /\ pc = "done"
  /\ ret.t = "dict"
  /\ polled = <<"pending", "running", "succeeded">>
  /\ ret.job_created_at # ret.job_updated_at

\* -------------------------------------------------------------------- C9
\* What holds right after the connections/sync response, and of every poll sent.
C9_AfterSync ==
  /\ (LastEp = "connections/sync" /\ lastResp.kind = "http" /\ lastResp.code = 404) =>
       (pc = "done" /\ exc = ConnectionNotFound /\ ret = Unset)
  /\ (LastEp = "connections/sync" /\ lastResp = Transport) =>
       (pc = "done" /\ exc = ServerUnhealthy /\ ret = Unset)
  /\ (LastEp = "connections/sync" /\ lastResp.kind = "http" /\ lastResp.code = 200
        /\ lastResp.json) =>
       (exc = "" /\ job_id = lastResp.body.job.id)
  /\ \A i \in Sent("jobs/get") : log[i].json = [id |-> job_id]

\* While the run polls, it keeps the job id it got from the trigger.
C9_JobIdKept == pc \in {"loop", "poll", "sleep"} => job_id' = job_id

\* C9: a connections/sync response of 404 makes run fail with
\* ConnectionNotFound, a transport failure of that request with
\* ServerUnhealthy, and after a 200 every jobs/get poll of the run asks for
\* the job.id of that response, which the run keeps unchanged while it polls.
C9_SyncOutcomes ==
  /\ []C9_AfterSync
  /\ [][C9_JobIdKept]_vars

C9_Witness ==
  /\ LastEp = "connections/sync"
  /\ lastResp = Json(404, ErrorBody)
  /\ pc = "done"
  /\ exc = ConnectionNotFound

\* ------------------------------------------------------------------- C10
\* C10: on any poll iteration a jobs/get response of 404 makes run fail with
\* JobNotFound and a transport failure of jobs/get with ServerUnhealthy; the
\* loop stops at that iteration and no SyncResult is returned.
C10_PollFailuresStopLoop ==
  /\ (LastEp = "jobs/get" /\ lastResp.kind = "http" /\ lastResp.code = 404) =>
       /\ pc = "done"
       /\ exc = JobNotFound
       /\ ret = Unset
       /\ Cardinality(Sent("jobs/get")) = Len(polled) + 1
  /\ (LastEp = "jobs/get" /\ lastResp = Transport) =>
       /\ pc = "done"
       /\ exc = ServerUnhealthy
       /\ ret = Unset
       /\ Cardinality(Sent("jobs/get")) = Len(polled) + 1

C10_Witness ==
  /\ pc = "done"
  /\ Len(polled) >= 2
  /\ LastEp = "jobs/get"
  /\ lastResp = Json(404, ErrorBody)
  /\ exc = JobNotFound

\* ------------------------------------------------------------------- C11
\* A response whose status code is not 2xx.
Non2xx(resp) == resp.kind = "http" /\ ~(resp.code >= 200 /\ resp.code < 300)

\* C11 (stated of the runs with a well-formed connection_id and of responses
\* with a JSON body): at connections/get, connections/sync and jobs/get a
\* response that is not 2xx, and is not the 404 of connections/sync or of
\* jobs/get, makes the run fail with ServerUnhealthy; after such a response to
\* connections/get no update and no sync is sent.
C11_UnclassifiedIsUnhealthy ==
  (~Malformed(connection_id) /\ Non2xx(lastResp) /\ lastResp.json) =>
    /\ LastEp = "connections/get" =>
         /\ pc = "done"
         /\ exc = ServerUnhealthy
         /\ Sent("connections/update") = {}
         /\ Sent("connections/sync") = {}
    /\ (LastEp \in {"connections/sync", "jobs/get"} /\ lastResp.code # 404) =>
         /\ pc = "done"
         /\ exc = ServerUnhealthy

\* ------------------------------------------------------------------- C12
\* The errors the design classifies; any other error is an unexpected one.
ClassifiedErrors ==
  {ValidationError, ServerUnhealthy, ConnectionNotFound, JobNotFound,
   ConnectionInactive, ConnectionDeprecated}

\* C12: a connections/sync response with a status code other than 200 and 404
\* ends the run with an error that is none of the classified ones; no
\* jobs/get poll is sent and no SyncResult is returned.
C12_UnexpectedSyncStatus ==
  (LastEp = "connections/sync" /\ lastResp.kind = "http"
     /\ lastResp.code \notin {200, 404}) =>
    /\ pc = "done"
    /\ exc # ""
    /\ exc \notin ClassifiedErrors
    /\ ret = Unset
    /\ Sent("jobs/get") = {}

C12_Witness ==
  /\ pc = "done"
  /\ LastEp = "connections/sync"
  /\ lastResp = Json(500, ErrorBody)
  /\ exc = TypeError
  /\ ~Malformed(connection_id)

\* ------------------------------------------------------------------- C13
\* The connection as the server stores it once it has served the request req:
\* connections/update replaces the attributes of the connection it names by
\* the ones in its body; health, connections/get and jobs/get only read, and
\* connections/sync starts a job without touching the connection's attributes.
served(conn, req) ==
  IF req.ep = "connections/update" /\ req.json.connectionId = conn.connectionId
    THEN [connectionId |-> conn.connectionId,
          status       |-> req.json.status,
          syncCatalog  |-> req.json.syncCatalog,
          schedule     |-> req.json.schedule]
    ELSE conn

\* The connection stored on the server after the first n events of the log,
\* starting from the connection conn.
RECURSIVE stored(_, _)
stored(conn, n) == IF n = 0 THEN conn ELSE served(stored(conn, n - 1), log[n])

\* The lookup's response carries a connection.
LookedUp ==
  response.kind = "http" /\ response.json /\ "schedule" \in DOMAIN response.body

\* The connection the lookup has read from the server.
looked_up ==
  [connectionId |-> connection_id,
   status       |-> response.body.status,
   syncCatalog  |-> response.body.syncCatalog,
   schedule     |-> response.body.schedule]

\* C13: whatever requests a run has sent, the connection stored on the server
\* has the status and the syncCatalog the lookup read; its schedule is the one
\* the lookup read, or null where the lookup read a non-null schedule. No
\* request is sent to an endpoint other than the five of the run.
C13_OnlyScheduleChanges ==
  /\ \A i \in 1..Len(log) :
       log[i].ep \in {"health", "connections/get", "connections/update",
                      "connections/sync", "jobs/get", "sleep"}
  /\ LookedUp =>
       LET now == stored(looked_up, Len(log))
       IN /\ now.status = looked_up.status
          /\ now.syncCatalog = looked_up.syncCatalog
          /\ \/ now.schedule = looked_up.schedule
             \/ looked_up.schedule # JsonNull /\ now.schedule = JsonNull

C13_Witness ==
  /\ pc = "done"
  /\ LookedUp
  /\ exc = ConnectionInactive
  /\ LastEp = "connections/update"
  /\ lastResp = Json(200, ErrorBody)
  /\ looked_up.schedule = JsonObject({"units", "timeUnit"})
  /\ looked_up.syncCatalog = "catalogB"
  /\ stored(looked_up, Len(log)).schedule = JsonNull
  /\ stored(looked_up, Len(log)).status = CONNECTION_STATUS_INACTIVE

\* ------------------------------------------------------------------- C14
\* The number of the poll logged at position i among the polls, whose
\* positions in the log are polls.
PollNo(polls, i) == Cardinality({j \in polls : j <= i})

\* The k-th poll returned a status, and the status is not failed or succeeded.
Unfinished(k) == k <= Len(polled) /\ polled[k] \notin TerminalJobStatuses

\* The k-th poll returned failed or succeeded.
Finished(k) == k <= Len(polled) /\ polled[k] \in TerminalJobStatuses

\* C14: every sleep lasts poll_interval_s and directly follows a poll that
\* returned a status other than failed and succeeded; such a poll is directly
\* followed by a sleep and a poll that returned failed or succeeded by nothing;
\* the first poll directly follows connections/sync; a run that returns after
\* its k-th poll has sent exactly k polls and slept exactly k - 1 times.
C14_SleepBetweenPolls ==
  LET polls  == Sent("jobs/get")
      sleeps == Sent("sleep")
  IN /\ \A i \in sleeps :
          /\ log[i].secs = poll_interval_s
          /\ i > 1
          /\ log[i - 1].ep = "jobs/get"
          /\ Unfinished(PollNo(polls, i - 1))
     /\ \A i \in polls :
          LET k == PollNo(polls, i)
          IN /\ i > 1
             /\ log[i - 1].ep = IF k = 1 THEN "connections/sync" ELSE "sleep"
             /\ Unfinished(k) =>
                  IF i = Len(log) THEN pc = "sleep" ELSE log[i + 1].ep = "sleep"
             /\ Finished(k) => i = Len(log)
     /\ IsSyncResult(ret) =>
          /\ Len(polled) >= 1
          /\ Cardinality(polls) = Len(polled)
          /\ Cardinality(sleeps) = Len(polled) - 1
          /\ Finished(Len(polled))
          /\ \A k \in 1..(Len(polled) - 1) : Unfinished(k)

C14_Witness ==
  /\ pc = "done"
  /\ IsSyncResult(ret)
  /\ polled = <<"running", "cancelled", JOB_STATUS_FAILED>>
  /\ Cardinality(Sent("jobs/get")) = 3
  /\ Cardinality(Sent("sleep")) = 2
  /\ poll_interval_s = 30

\* ------------------------------------------------------------------- C15
\* The run is in its polling loop.
InLoop == pc \in {"loop", "poll", "sleep"}

C15_StaysInLoop == InLoop => (InLoop' /\ exc' = "" /\ ret' = Unset)

\* C15: against a server that answers every poll 200 with cancelled,
\* incomplete, running or pending, a run that has entered the polling loop
\* never leaves it, neither by returning nor by failing, and polls and sleeps
\* again and again.
C15_UnfinishedJobNeverEnds ==
  /\ [][C15_StaysInLoop]_vars
  /\ InLoop ~> (pc = "poll")
  /\ InLoop ~> (pc = "sleep")

C15_Witness ==
  /\ pc = "poll"
  /\ job_status = "cancelled"
  /\ lastResp \in UnfinishedJobsResponses
  /\ lastResp.body.job.status = "cancelled"
  /\ exc = ""
  /\ ret = Unset

\* ------------------------------------------------------------------- C16
\* C16: when every request is answered and the job eventually is failed or
\* succeeded for good, a run whose connection is active eventually ends.
C16_ActiveRunTerminates ==
  (connection_status = CONNECTION_STATUS_ACTIVE /\ pc = "sync") ~> (pc = "done")

C16_Witness ==
  /\ pc = "done"
  /\ connection_status = CONNECTION_STATUS_ACTIVE
  /\ IsSyncResult(ret)
  /\ job_status = JOB_STATUS_SUCCEEDED
  /\ lastResp.body.job.updatedAt = 2

\* ------------------------------------------------------------------- C17
\* The place of an endpoint in the order of a run.
Rank(ep) ==
  CASE ep = "health" -> 1
    [] ep = "connections/get" -> 2
    [] ep = "connections/update" -> 3
    [] ep = "connections/sync" -> 4
    [] ep = "jobs/get" -> 5

\* The positions of the requests in the log (its other events are sleeps).
Requests == {i \in 1..Len(log) : log[i].ep # "sleep"}

\* The latest response is a JSON answer no helper raises on.
AnsweredOK(codes) == lastResp.kind = "http" /\ lastResp.json /\ lastResp.code \in codes

C17_Order ==
  /\ \A i \in Requests : \A j \in Requests :
       i < j => \/ Rank(log[i].ep) < Rank(log[j].ep)
                \/ log[i].ep = "jobs/get" /\ log[j].ep = "jobs/get"
  /\ log # <<>> => log[1].ep = "health"
  /\ Sent("connections/update") # {} => Sent("connections/get") # {}
  /\ Sent("connections/sync") # {} => Sent("connections/get") # {}
  /\ Sent("jobs/get") # {} => Sent("connections/sync") # {}

\* A step that sends a request follows a step that returned without raising.
C17_AfterSuccess ==
  (Len(log') = Len(log) + 1 /\ log'[Len(log')].ep # "sleep") =>
    /\ exc = ""
    /\ ret = Unset
    /\ CASE log'[Len(log')].ep = "health" -> log = <<>>
         [] log'[Len(log')].ep = "connections/get" ->
              /\ LastEp = "health"
              /\ AnsweredOK({200, 503})
              /\ ~FalsyHealth(lastResp)
         [] log'[Len(log')].ep = "connections/update" ->
              LastEp = "connections/get" /\ AnsweredOK(100..399)
         [] log'[Len(log')].ep = "connections/sync" ->
              /\ LastEp \in {"connections/get", "connections/update"}
              /\ AnsweredOK(100..599)
              /\ connection_status = CONNECTION_STATUS_ACTIVE
         [] log'[Len(log')].ep = "jobs/get" ->
              /\ LastEp \in {"connections/sync", "sleep"}
              /\ AnsweredOK({200})

\* C17: the requests of a run are sent in the order health, connections/get,
\* connections/update, connections/sync, jobs/get; health, connections/get,
\* connections/update and connections/sync are sent at most once and only
\* jobs/get repeats; update and sync come after a lookup and polls after a
\* sync; and each request is sent only when the step before it has returned
\* without raising.
C17_RequestOrder == []C17_Order /\ [][C17_AfterSuccess]_vars

C17_Witness ==
  /\ pc = "done"
  /\ IsSyncResult(ret)
  /\ Len(log) = 7
  /\ [i \in 1..7 |-> log[i].ep] =
       <<"health", "connections/get", "connections/update", "connections/sync",
         "jobs/get", "sleep", "jobs/get">>

\* ------------------------------------------------------------------- C18
\* The errors with which a step of the run fails.
StepErrors ==
  {ServerUnhealthy, ConnectionNotFound, JobNotFound, ConnectionInactive,
   ConnectionDeprecated}

\* A transport failure of health, connections/get, connections/sync or
\* jobs/get has ended the run with ServerUnhealthy, and the failed request was
\* sent once: it is the only request to its endpoint or, for jobs/get, the
\* only one after the polls that returned a status.
C18_TransportFailureEnds ==
  (lastResp = Transport
     /\ LastEp \in {"health", "connections/get", "connections/sync", "jobs/get"}) =>
    /\ pc = "done"
    /\ exc = ServerUnhealthy
    /\ ret = Unset
    /\ Cardinality(Sent(LastEp)) =
         IF LastEp = "jobs/get" THEN Len(polled) + 1 ELSE 1

\* Once a step has failed, the run sends nothing and stays failed.
C18_NothingAfterFailure ==
  exc \in StepErrors => (log' = log /\ exc' = exc /\ ret' = Unset /\ pc' = "done")

\* C18: the first transport failure of health, connections/get,
\* connections/sync or jobs/get ends the run with ServerUnhealthy without the
\* request being sent again, and a run that has failed with ServerUnhealthy,
\* ConnectionNotFound, JobNotFound, ConnectionInactive or
\* ConnectionDeprecated is over and sends no further request.
C18_NoRetry ==
  /\ [](C18_TransportFailureEnds /\ (exc \in StepErrors => pc = "done"))
  /\ [][C18_NothingAfterFailure]_vars

C18_Witness ==
  /\ pc = "done"
  /\ exc = ServerUnhealthy
  /\ lastResp = Transport
  /\ LastEp = "jobs/get"
  /\ polled = <<"running">>
  /\ Cardinality(Sent("jobs/get")) = 2

\* ------------------------------------------------------------------- C19
\* The flag the health check is to read: `available` when the body has it,
\* `db` otherwise ("absent" when the body has neither).
SelectedFlag(body) == IF body.available # "absent" THEN body.available ELSE body.db

\* C19 (stated of the runs with a well-formed connection_id and of the health
\* responses with a JSON body): the check passes, and the run goes on to the
\* lookup, exactly when the selected flag is true; in every other case, a body
\* with neither key included, the run has failed with ServerUnhealthy.
C19_HealthFlagSelection ==
  (~Malformed(connection_id) /\ LastEp = "health" /\ lastResp.kind = "http"
     /\ lastResp.json) =>
    IF SelectedFlag(lastResp.body) = "true"
      THEN pc = "get" /\ exc = "" /\ ret = Unset
      ELSE pc = "done" /\ exc = ServerUnhealthy /\ ret = Unset

====
